---- MODULE Spec2Model ----
(***************************************************************************)
(* State-machine model of the agent / tool / memory orchestration and of   *)
(* the scraper manager of mykonos-agent (backend/app).                     *)
(*                                                                         *)
(* Python values are encoded as follows:                                   *)
(*   None            the empty sequence <<>>                               *)
(*   Optional x      <<x>> (Some(x)) or <<>> (None)                        *)
(*   dict / object   a record carrying a "pytype" field                    *)
(*   raise / return  an outcome record [exc, msg, val]                     *)
(***************************************************************************)
EXTENDS Integers, Sequences, FiniteSets, TLC

(***************************************************************************)
(* Bounds of the model                                                     *)
(***************************************************************************)
MaxBound == 3
MaxItems == 5
MaxActs == 3
MaxScrapers == 2
MaxArticles == 2
MaxDate == 2
\* the clock starts at StartTime and the model stops at MaxTime
StartTime == 3
MaxTime == 7
\* most _make_request calls of one scraper, and the longest a request takes
MaxRequests == 3
MaxDuration == 1
\* most entries of a short feed
MaxEntries == 1
\* longest list handed to the deduplication step, and largest max_results
MaxListLen == 3
MaxMaxResults == 3
\* most compare_tools calls
MaxCompare == 1

(***************************************************************************)
(* Program constants                                                       *)
(***************************************************************************)
DefaultMaxShortTerm == 100
DomainNumResults == 3
\* BaseScraper.__init__: rate_limit defaults to 1.0 second
DefaultRateLimit == 1
\* TechNewsScraper.__init__ passes rate_limit=2.0
TechNewsRateLimit == 2
\* research_topic: max_results defaults to 5
DefaultMaxResults == 5
\* TechNewsScraper.__init__ configures four feeds
NumFeeds == 4
\* scrape looks at feed.entries[:10]
EntryLimit == 10

None == <<>>
Some(x) == <<x>>

Raise(m) == [exc |-> TRUE, msg |-> m, val |-> None]
Return(v) == [exc |-> FALSE, msg |-> "", val |-> Some(v)]

AgentState == {"idle", "thinking", "acting", "error"}

VARIABLES
    agent_class,    \* "AIAgent" or "ResearchAgent": the class of the agent object
    state,          \* self.state
    tools,          \* self.tools: tool name -> tool object
    memory,         \* self.memory: [short_term, long_term, max_short_term]
    inserted,       \* every MemoryItem created by add_observation, in creation order
    act_pc,         \* position inside act: "none", "try", "finally"
    act_args,       \* arguments of the running act call
    act_mem0,       \* number of memory items when the running act call was entered
    act_caught,     \* whether the except clause of the act call ran
    act_exit,       \* how the act call ends: "none" (undecided), "return", "raise"
    act_ret,        \* value returned by the last act call
    rt_pc,          \* position inside research_topic
    rt_domain,      \* index of the domain the search loop is at
    rt_max,         \* max_results argument of the running research_topic call
    all_results,    \* all_results of the running research_topic call
    rt_exit,        \* how the last research_topic call ended: "none", "return", "raise"
    add_ret,        \* the last add_tool call: its tool and how it ended
    rt_topic,       \* the topic of the running (or last) research_topic call
    rt_calls,       \* the act calls the running research_topic call has made
    rt_ret,         \* the result the last research_topic call returned, None if none
    rt_llm_calls,   \* the LLM generation calls of the running (or last) research_topic call
    ct_args,        \* tool_names of the last compare_tools call
    ct_ret,         \* what the last compare_tools call returns
    ct_count,       \* the compare_tools calls made so far
    scrapers,       \* ScraperManager.scrapers: the registered names, in dict order
    sa_pc,          \* position inside scrape_all: "none", "loop"
    sa_idx,         \* index of the scraper the loop of scrape_all is at
    all_articles,   \* all_articles of scrape_all
    sa_exit,        \* how the last scrape_all call ended: "none", "return", "raise"
    sa_log,         \* what scraper.scrape did for each scraper scrape_all has run
    ss_call,        \* the last scrape_single call: source, scrapers run, scraper and call outcome
    http,           \* the last response of GET /scrape/{source}
    clock,          \* time.time(), in seconds
    rate_limit,     \* BaseScraper.rate_limit
    last_request_time, \* BaseScraper.last_request_time
    req_log,        \* the requests _make_request has issued: issue time, completion time, outcome
    mr_ret,         \* what the last _make_request call returned
    mr_exit,        \* how the last _make_request call ended: "none", "return", "raise"
    tn_pc,          \* position of the running TechNewsScraper.scrape call, "none" if none
    tn_feed,        \* index in self.feeds of the next feed scrape visits
    tn_articles,    \* the local list `articles` of scrape
    tn_log,         \* what feedparser.parse did for each feed visited
    tn_exit,        \* how the last scrape call ended: "none", "return", "raise"
    dd_in,          \* the list all_results handed to the deduplication step
    dd_max,         \* the max_results handed to the deduplication step
    dd_out          \* the list unique_results it produced, None before it ran

vars == <<agent_class, state, tools, memory, inserted, act_pc, act_args, act_mem0,
          act_caught, act_exit, act_ret, rt_pc, rt_domain, rt_max, all_results, rt_exit, add_ret,
          rt_topic, rt_calls, rt_ret, rt_llm_calls, ct_args, ct_ret, ct_count,
          scrapers, sa_pc, sa_idx, all_articles, sa_exit, sa_log, ss_call, http,
          clock, rate_limit, last_request_time, req_log, mr_ret, mr_exit,
          tn_pc, tn_feed, tn_articles, tn_log, tn_exit,
          dd_in, dd_max, dd_out>>

scrapeVars == <<scrapers, sa_pc, sa_idx, all_articles, sa_exit, sa_log, ss_call, http>>

fetchVars == <<clock, rate_limit, last_request_time, req_log, mr_ret, mr_exit>>

\* the variables of the components that are neither the agent nor the scraper manager
techVars == <<tn_pc, tn_feed, tn_articles, tn_log, tn_exit>>

dedupVars == <<dd_in, dd_max, dd_out>>

otherVars == <<fetchVars, techVars, dedupVars>>

researchVars == <<rt_topic, rt_calls, rt_ret, rt_llm_calls, ct_args, ct_ret, ct_count>>

agentVars == <<agent_class, state, tools, act_pc, act_args, act_mem0, act_caught, act_exit,
               act_ret, rt_pc, rt_domain, rt_max, all_results, rt_exit, add_ret, researchVars>>

(***************************************************************************)
(* Memory (agents/memory.py)                                               *)
(***************************************************************************)
Contents == {"c1", "c2"}

MemoryItem(content, now) == [content |-> content, timestamp |-> now]

NewMemory(max_short_term) ==
    [short_term |-> <<>>, long_term |-> <<>>, max_short_term |-> max_short_term]

\* mutant: nothing is moved to long-term storage
_consolidate_memories_none(m) == m

\* mutant: the oldest half is copied to long-term storage and kept in short-term
_consolidate_memories_copy(m) ==
    [m EXCEPT !.long_term = m.long_term \o SubSeq(m.short_term, 1, Len(m.short_term) \div 2)]

_consolidate_memories(m) ==
    LET split == Len(m.short_term) \div 2
    IN  [m EXCEPT !.long_term = m.long_term \o SubSeq(m.short_term, 1, split),
                  !.short_term = SubSeq(m.short_term, split + 1, Len(m.short_term))]

\* mutant: consolidation starts one item too late
add_observation_late(m, item) ==
    LET appended == [m EXCEPT !.short_term = Append(m.short_term, item)]
    IN  IF Len(appended.short_term) > appended.max_short_term + 1
        THEN _consolidate_memories(appended)
        ELSE appended

add_observation(m, item) ==
    LET appended == [m EXCEPT !.short_term = Append(m.short_term, item)]
    IN  IF Len(appended.short_term) > appended.max_short_term
        THEN _consolidate_memories(appended)
        ELSE appended

MemCount(m) == Len(m.short_term) + Len(m.long_term)

\* self.memory.add_observation(content, metadata): the item is stamped with the
\* time of its creation (a logical clock: the number of items created so far)
MemoryAdd(content) ==
    LET item == MemoryItem(content, Len(inserted) + 1)
    IN  /\ memory' = add_observation(memory, item)
        /\ inserted' = Append(inserted, item)

(***************************************************************************)
(* Tools (agents/tool.py, agents/tools/web_search.py)                      *)
(***************************************************************************)
\* tool objects and their name attribute; two distinct objects share a name
ToolObjects == {"WebSearchTool", "CustomToolA", "CustomToolB"}

ToolName(t) == IF t = "WebSearchTool" THEN "web_search" ELSE "calc"

\* action names a caller may pass to act
ActionNames == {"web_search", "calc", "nosuch"}

ToolResult(success, output, error) ==
    [pytype |-> "ToolResult", success |-> success, output |-> output, error |-> error]

\* messages carried by exceptions of the collaborators (str(e) may be empty)
ExcMessages == {"", "timeout"}

Urls == {"u1", "u2"}

SearchLists ==
    {<<>>} \cup {<<[url |-> u]>> : u \in Urls}
           \cup {<<[url |-> u], [url |-> v]>> : u \in Urls, v \in Urls}

\* llm_client.search_web(query, domain): raises, or returns None or a list
SearchWebOutcomes ==
    {Raise(m) : m \in ExcMessages} \cup {Return(None)} \cup {Return(Some(l)) : l \in SearchLists}

\* mutant: the error is the bare message of the exception
WebSearchTool_execute_bare_message(query, num_results, sw) ==
    IF sw.exc
    THEN ToolResult(FALSE, None, Some(sw.msg))
    ELSE LET got == sw.val[1]
             search_results ==
                 IF got # None /\ Len(got[1]) > num_results
                 THEN SubSeq(got[1], 1, num_results)
                 ELSE IF got # None THEN got[1] ELSE <<>>
         IN  ToolResult(TRUE,
                        Some([query |-> query,
                              results |-> search_results,
                              result_count |-> Len(search_results)]),
                        None)

\* WebSearchTool.execute, lines 36-67, for one outcome of llm_client.search_web
WebSearchTool_execute(query, num_results, sw) ==
    IF sw.exc
    THEN ToolResult(FALSE, None, Some("Error performing web search: " \o sw.msg))
    ELSE LET got == sw.val[1]
             search_results ==
                 IF got # None /\ Len(got[1]) > num_results
                 THEN SubSeq(got[1], 1, num_results)
                 ELSE IF got # None THEN got[1] ELSE <<>>
         IN  ToolResult(TRUE,
                        Some([query |-> query,
                              results |-> search_results,
                              result_count |-> Len(search_results)]),
                        None)

\* BaseTool.execute is abstract: a custom tool raises or returns any ToolResult
CustomOutcomes ==
    {Raise(m) : m \in ExcMessages}
    \cup {Return(ToolResult(s, o, e)) :
            s \in BOOLEAN, o \in {None, Some([value |-> 1])}, e \in {None, Some("failed")}}

\* tool.execute(**parameters): every outcome the tool object can produce
ExecuteOutcomes(t, params) ==
    IF t = "WebSearchTool"
    THEN {Return(WebSearchTool_execute(params.query, params.num_results, sw)) :
            sw \in SearchWebOutcomes}
    ELSE CustomOutcomes

(***************************************************************************)
(* AIAgent (agents/agent.py)                                               *)
(***************************************************************************)
EmptyTools == [n \in {} |-> "WebSearchTool"]

\* mutant: a duplicate name silently rebinds the name to the new tool
add_tool_overwrite(reg, tool) ==
    [exit |-> "return", tools |-> [n \in DOMAIN reg \cup {ToolName(tool)} |->
                                     IF n = ToolName(tool) THEN tool ELSE reg[n]]]

\* add_tool as a function of the registry: the outcome and the registry after it
add_tool(reg, tool) ==
    IF ToolName(tool) \in DOMAIN reg
    THEN [exit |-> "raise", tools |-> reg]
    ELSE [exit |-> "return", tools |-> [n \in DOMAIN reg \cup {ToolName(tool)} |->
                                          IF n = ToolName(tool) THEN tool ELSE reg[n]]]

get_tool(reg, tool_name) ==
    IF tool_name \notin DOMAIN reg
    THEN Raise("Tool '" \o tool_name \o "' not found")
    ELSE Return(reg[tool_name])

\* the registry built by __init__ from a list of tools with distinct names
RECURSIVE InitTools(_)
InitTools(list) ==
    IF list = <<>> THEN EmptyTools
    ELSE add_tool(InitTools(SubSeq(list, 1, Len(list) - 1)), list[Len(list)]).tools

ToolLists ==
    {<<>>, <<"WebSearchTool">>, <<"CustomToolA">>, <<"WebSearchTool", "CustomToolB">>}

Dict(success, output, error) ==
    [pytype |-> "dict", success |-> success, output |-> output, error |-> error]

NoArgs == [action |-> "", query |-> "", num_results |-> 0]
NoRet == [pytype |-> "none", success |-> FALSE, output |-> None, error |-> None]
NoAdd == [tool |-> "", exit |-> "none"]
NoCompare == [pytype |-> "none", error |-> "", query |-> ""]

AgentInit ==
    /\ state = "idle"
    /\ \/ /\ agent_class = "AIAgent"
          /\ \E l \in ToolLists : tools = InitTools(l)
          /\ \E b \in 0..MaxBound : memory = NewMemory(b)
       \/ /\ agent_class = "ResearchAgent"
          /\ tools = InitTools(<<"WebSearchTool">>)
          /\ memory = NewMemory(DefaultMaxShortTerm)
    /\ inserted = <<>>
    /\ act_pc = "none"
    /\ act_args = NoArgs
    /\ act_mem0 = 0
    /\ act_caught = FALSE
    /\ act_exit = "none"
    /\ act_ret = NoRet
    /\ rt_pc = "none"
    /\ rt_domain = 0
    /\ rt_max = 0
    /\ all_results = <<>>
    /\ rt_exit = "none"
    /\ add_ret = NoAdd
    /\ rt_topic = ""
    /\ rt_calls = <<>>
    /\ rt_ret = None
    /\ rt_llm_calls = 0
    /\ ct_args = <<>>
    /\ ct_ret = NoCompare
    /\ ct_count = 0

\* no call is running: the caller may start any operation
Ready == act_pc = "none" /\ rt_pc = "none"

AddTool(tool) ==
    /\ Ready
    /\ LET r == add_tool(tools, tool)
       IN  /\ tools' = r.tools
           /\ add_ret' = [tool |-> tool, exit |-> r.exit]
    /\ UNCHANGED <<agent_class, state, memory, inserted, act_pc, act_args, act_mem0,
                   act_caught, act_exit, act_ret, rt_pc, rt_domain, rt_max, all_results, rt_exit>>
    /\ UNCHANGED researchVars
    /\ UNCHANGED scrapeVars
    /\ UNCHANGED otherVars

\* act, line 105: the call is entered
ActEnter(action, query, num_results) ==
    /\ act_pc = "none"
    /\ state' = "acting"
    /\ act_pc' = "try"
    /\ act_args' = [action |-> action, query |-> query, num_results |-> num_results]
    /\ act_mem0' = MemCount(memory)
    /\ act_caught' = FALSE
    /\ act_exit' = "none"
    /\ act_ret' = NoRet

\* mutant: only a successful result is observed
ActTryBlock_observe_on_success(reg, args, outcome) ==
    LET found == get_tool(reg, args.action)
    IN  IF found.exc THEN [exc |-> TRUE, msg |-> found.msg, observed |-> None, ret |-> NoRet]
        ELSE IF outcome.exc
        THEN [exc |-> TRUE, msg |-> outcome.msg, observed |-> None, ret |-> NoRet]
        ELSE LET result == outcome.val[1]
             IN  [exc |-> FALSE, msg |-> "",
                  observed |-> IF result.success
                               THEN Some("Executed " \o args.action) ELSE None,
                  ret |-> Dict(result.success, result.output, result.error)]

\* what the try block of act (lines 108-122) does for one outcome of the tool:
\* an exception, or the observed content and the mapping to return
ActTryBlock(reg, args, outcome) ==
    LET found == get_tool(reg, args.action)
    IN  IF found.exc THEN [exc |-> TRUE, msg |-> found.msg, observed |-> None, ret |-> NoRet]
        ELSE IF outcome.exc
        THEN [exc |-> TRUE, msg |-> outcome.msg, observed |-> None, ret |-> NoRet]
        ELSE LET result == outcome.val[1]
             IN  [exc |-> FALSE, msg |-> "",
                  observed |-> Some("Executed " \o args.action),
                  ret |-> Dict(result.success, result.output, result.error)]

\* mutant: the except clause does not catch the exception
ActExcept_uncaught(args, t) ==
    IF t.exc
    THEN [exit |-> "raise", ret |-> NoRet]
    ELSE [exit |-> "return", ret |-> t.ret]

\* the except clause of act (lines 124-127): every Exception becomes a mapping
ActExcept(args, t) ==
    IF t.exc
    THEN [exit |-> "return",
          ret |-> Dict(FALSE, None, Some("Error executing action " \o args.action \o ": " \o t.msg))]
    ELSE [exit |-> "return", ret |-> t.ret]

\* num_results arguments of the act calls made by the owner of the agent
NumResultsArgs == {1}

\* await agent.act(action, parameters) called by the owner of the agent
Act(action) ==
    /\ Ready
    /\ Len(inserted) < MaxActs
    /\ \E n \in NumResultsArgs : ActEnter(action, "q", n)
    /\ UNCHANGED <<agent_class, tools, memory, inserted, rt_pc, rt_domain, rt_max,
                   all_results, rt_exit, add_ret>>
    /\ UNCHANGED researchVars
    /\ UNCHANGED scrapeVars
    /\ UNCHANGED otherVars

\* act, lines 107-127: the try statement up to the return value
ActTry ==
    /\ act_pc = "try"
    /\ \E outcome \in (IF act_args.action \in DOMAIN tools
                       THEN ExecuteOutcomes(tools[act_args.action], act_args)
                       ELSE {Raise("")}) :
         LET t == ActTryBlock(tools, act_args, outcome)
             r == ActExcept(act_args, t)
         IN  /\ IF t.observed # None
                THEN MemoryAdd(t.observed[1])
                ELSE UNCHANGED <<memory, inserted>>
             /\ act_caught' = t.exc
             /\ act_exit' = r.exit
             /\ act_ret' = r.ret
    /\ act_pc' = "finally"
    /\ UNCHANGED <<agent_class, state, tools, act_args, act_mem0, rt_pc, rt_domain,
                   rt_max, all_results, rt_exit, add_ret>>
    /\ UNCHANGED researchVars
    /\ UNCHANGED scrapeVars
    /\ UNCHANGED otherVars

\* mutant: the state is reset on the normal path only, not in a finally clause
ActFinally_no_reset ==
    /\ act_pc = "finally"
    /\ state' = IF act_caught THEN state ELSE "idle"
    /\ act_pc' = "none"
    /\ rt_pc' = IF rt_pc = "await"
                THEN (IF act_exit = "raise" THEN "except" ELSE "check")
                ELSE rt_pc
    /\ UNCHANGED <<agent_class, tools, memory, inserted, act_args, act_mem0, act_caught, act_exit,
                   act_ret, rt_domain, rt_max, all_results, rt_exit, add_ret>>
    /\ UNCHANGED researchVars
    /\ UNCHANGED scrapeVars
    /\ UNCHANGED otherVars

\* act, lines 128-129: the finally clause, then control is back in the caller
ActFinally ==
    /\ act_pc = "finally"
    /\ state' = "idle"
    /\ act_pc' = "none"
    /\ rt_pc' = IF rt_pc = "await"
                THEN (IF act_exit = "raise" THEN "except" ELSE "check")
                ELSE rt_pc
    /\ UNCHANGED <<agent_class, tools, memory, inserted, act_args, act_mem0, act_caught, act_exit,
                   act_ret, rt_domain, rt_max, all_results, rt_exit, add_ret>>
    /\ UNCHANGED researchVars
    /\ UNCHANGED scrapeVars
    /\ UNCHANGED otherVars

(***************************************************************************)
(* ResearchAgent (agents/research_agent.py)                                *)
(***************************************************************************)
search_domains ==
    <<"github.com", "techcrunch.com", "venturebeat.com", "towardsdatascience.com",
      "medium.com", "reddit.com/r/MachineLearning", "news.ycombinator.com">>

\* line 62
search_query(topic) == topic \o " AI software engineering automation"

\* topics callers pass to research_topic
Topics == {"topic"}

MaxResultsArgs == {0, 1, 2}

\* obj.success, obj.output: a dict has no such attribute (AttributeError)
HasAttr(obj) == obj.pytype # "dict"

\* the texts the LLM may answer with
LLMTexts == {"no list", "1. first point"}

\* llm_client.generate_async(messages): raises, or returns a response
GenerateOutcomes ==
    {Raise(m) : m \in ExcMessages} \cup {Return([content |-> t]) : t \in LLMTexts}

\* _llm_generate (agent.py, lines 82-101): the exception is logged and raised
\* again, a response gives its content
_llm_generate(generated) ==
    IF generated.exc THEN Raise(generated.msg) ELSE Return(generated.val[1].content)

\* self._llm_generate(...): raises, or returns a text
LLMOutcomes == {_llm_generate(g) : g \in GenerateOutcomes}

\* lines 163-169: the numbered or bulleted lines of the text
ExtractKeyPoints(text) == IF text = "1. first point" THEN <<"first point">> ELSE <<>>

\* the mapping _analyze_results returns; error is None when the key is absent
Analysis(summary, key_points, error) ==
    [summary |-> summary, key_points |-> key_points, error |-> error]

\* _analyze_results, lines 126-183, for one outcome of the LLM call: the
\* analysis and the number of LLM calls made
_analyze_results(results, llm) ==
    IF results = <<>>
    THEN [analysis |-> Analysis("No relevant information found.", <<>>, None),
          llm_calls |-> 0]
    ELSE IF llm.exc
    THEN [analysis |-> Analysis("Error analyzing search results.",
                                <<"Analysis failed due to an error.">>, Some(llm.msg)),
          llm_calls |-> 1]
    ELSE LET key_points == ExtractKeyPoints(llm.val[1])
         IN  [analysis |-> Analysis(llm.val[1],
                                    IF key_points # <<>> THEN key_points
                                    ELSE <<"No specific key points extracted.">>,
                                    None),
              llm_calls |-> 1]

\* lines 100-107 (search_date left out)
ResearchResult(topic, unique_results, analysis) ==
    [topic |-> topic,
     sources_searched |-> Len(search_domains) + 1,
     results_found |-> Len(unique_results),
     results |-> unique_results,
     analysis |-> analysis]

\* mutant: a call entered in state error leaves the state as it is
RTEnter_keep_error(topic, max_results) ==
    /\ Ready
    /\ agent_class = "ResearchAgent"
    /\ Len(inserted) < MaxActs
    /\ state' = IF state = "error" THEN state ELSE "thinking"
    /\ rt_pc' = "search"
    /\ rt_domain' = 1
    /\ rt_max' = max_results
    /\ all_results' = <<>>
    /\ rt_exit' = "none"
    /\ rt_topic' = topic
    /\ rt_calls' = <<>>
    /\ rt_ret' = None
    /\ rt_llm_calls' = 0
    /\ UNCHANGED <<agent_class, tools, memory, inserted, act_pc, act_args, act_mem0,
                   act_caught, act_exit, act_ret, add_ret>>
    /\ UNCHANGED scrapeVars
    /\ UNCHANGED otherVars

\* research_topic, lines 55-65: what entering the call does to the agent
RTEnter(topic, max_results) ==
    /\ Ready
    /\ agent_class = "ResearchAgent"
    /\ Len(inserted) < MaxActs
    /\ state' = "thinking"
    /\ rt_pc' = "search"
    /\ rt_domain' = 1
    /\ rt_max' = max_results
    /\ all_results' = <<>>
    /\ rt_exit' = "none"
    /\ rt_topic' = topic
    /\ rt_calls' = <<>>
    /\ rt_ret' = None
    /\ rt_llm_calls' = 0
    /\ UNCHANGED <<agent_class, tools, memory, inserted, act_pc, act_args, act_mem0,
                   act_caught, act_exit, act_ret, add_ret>>
    /\ UNCHANGED scrapeVars
    /\ UNCHANGED otherVars

\* a caller calls research_topic
RTBegin(topic, max_results) ==
    /\ RTEnter(topic, max_results)
    /\ UNCHANGED <<ct_args, ct_ret, ct_count>>

\* research_topic, lines 67-71 and 77-81: the next act call is entered, for
\* the next domain or, after the last domain, for the general search
RTSearch ==
    /\ rt_pc = "search"
    /\ IF rt_domain <= Len(search_domains)
       THEN ActEnter("web_search",
                     "site:" \o search_domains[rt_domain] \o " " \o search_query(rt_topic),
                     DomainNumResults)
       ELSE ActEnter("web_search", search_query(rt_topic), rt_max * 2)
    /\ rt_pc' = "await"
    /\ UNCHANGED <<agent_class, tools, memory, inserted, rt_domain, rt_max,
                   all_results, rt_exit, add_ret>>
    /\ UNCHANGED researchVars
    /\ UNCHANGED scrapeVars
    /\ UNCHANGED otherVars

\* search results: the url may be missing or empty (""), titles tell apart
\* results with the same url
DedupResults == {[url |-> u, title |-> t] : u \in {""} \cup Urls, t \in {"a", "b"}}

DedupLists == UNION {[1..n -> DedupResults] : n \in 0..MaxListLen}

\* lines 89-94: the loop over all_results, from result i on
RECURSIVE DedupLoop(_, _, _, _, _)
DedupLoop(results, i, unique_results, seen_urls, max_results) ==
    IF i > Len(results) THEN unique_results
    ELSE IF results[i].url # "" /\ results[i].url \notin seen_urls
    THEN IF Len(unique_results) + 1 >= max_results
         THEN Append(unique_results, results[i])
         ELSE DedupLoop(results, i + 1, Append(unique_results, results[i]),
                        seen_urls \cup {results[i].url}, max_results)
    ELSE DedupLoop(results, i + 1, unique_results, seen_urls, max_results)

\* lines 86-94
Dedup(results, max_results) == DedupLoop(results, 1, <<>>, {}, max_results)

\* research_topic, lines 85-116: deduplication, analysis, observation, return
RTFinish(results) ==
    LET unique_results == Dedup(results, rt_max)
    IN  \E llm \in LLMOutcomes :
           LET a == _analyze_results(unique_results, llm)
           IN  /\ all_results' = results
               /\ rt_llm_calls' = a.llm_calls
               /\ rt_ret' = Some(ResearchResult(rt_topic, unique_results, a.analysis))
               /\ MemoryAdd("Completed research on " \o rt_topic)
               /\ rt_exit' = "return"
               /\ rt_pc' = "finally"
               /\ UNCHANGED rt_domain

\* research_topic, lines 73-116: the value act returned is inspected, and the
\* call goes on to its next act call or to its end
RTCheck ==
    /\ rt_pc = "check"
    /\ rt_calls' = Append(rt_calls, [query |-> act_args.query,
                                     num_results |-> act_args.num_results,
                                     ret |-> act_ret])
    /\ IF ~HasAttr(act_ret)
       THEN /\ rt_pc' = "except"
            /\ UNCHANGED <<rt_domain, all_results, rt_exit, rt_ret, rt_llm_calls,
                           memory, inserted>>
       ELSE LET got == IF act_ret.success /\ act_ret.output[1].results # <<>>
                       THEN act_ret.output[1].results
                       ELSE <<>>
                results == IF rt_domain <= Len(search_domains)
                           THEN all_results \o got
                           ELSE IF got # <<>> THEN got ELSE all_results
            IN  IF \/ rt_domain < Len(search_domains)
                   \/ rt_domain = Len(search_domains) /\ results = <<>>
                THEN /\ all_results' = results
                     /\ rt_domain' = rt_domain + 1
                     /\ rt_pc' = "search"
                     /\ UNCHANGED <<rt_exit, rt_ret, rt_llm_calls, memory, inserted>>
                ELSE RTFinish(results)
    /\ UNCHANGED <<agent_class, state, tools, act_pc, act_args,
                   act_mem0, act_caught, act_exit, act_ret, rt_max, add_ret>>
    /\ UNCHANGED <<rt_topic, ct_args, ct_ret, ct_count>>
    /\ UNCHANGED scrapeVars
    /\ UNCHANGED otherVars

\* research_topic, lines 118-121: the except clause
RTExcept ==
    /\ rt_pc = "except"
    /\ state' = "error"
    /\ rt_exit' = "raise"
    /\ rt_pc' = "finally"
    /\ UNCHANGED <<agent_class, tools, memory, inserted, act_pc, act_args, act_mem0,
                   act_caught, act_exit, act_ret, rt_domain, rt_max, all_results, add_ret>>
    /\ UNCHANGED researchVars
    /\ UNCHANGED scrapeVars
    /\ UNCHANGED otherVars

\* mutant: the finally clause resets the state whatever it is
RTFinally_always_idle ==
    /\ rt_pc = "finally"
    /\ state' = "idle"
    /\ rt_pc' = "none"
    /\ rt_calls' = <<>>
    /\ UNCHANGED <<agent_class, tools, memory, inserted, act_pc, act_args, act_mem0,
                   act_caught, act_exit, act_ret, rt_domain, rt_max, all_results, rt_exit, add_ret>>
    /\ UNCHANGED <<rt_topic, rt_ret, rt_llm_calls, ct_args, ct_ret, ct_count>>
    /\ UNCHANGED scrapeVars
    /\ UNCHANGED otherVars

\* research_topic, lines 122-124: the finally clause, then the call ends and
\* the record of its act calls goes with it
RTFinally ==
    /\ rt_pc = "finally"
    /\ state' = IF state # "error" THEN "idle" ELSE state
    /\ rt_pc' = "none"
    /\ rt_calls' = <<>>
    /\ UNCHANGED <<agent_class, tools, memory, inserted, act_pc, act_args, act_mem0,
                   act_caught, act_exit, act_ret, rt_domain, rt_max, all_results, rt_exit, add_ret>>
    /\ UNCHANGED <<rt_topic, rt_ret, rt_llm_calls, ct_args, ct_ret, ct_count>>
    /\ UNCHANGED scrapeVars
    /\ UNCHANGED otherVars

\* tool_names arguments of compare_tools
ToolNameLists == {<<>>, <<"A">>, <<"A", "B">>}

\* sep.join(names)
RECURSIVE Join(_, _)
Join(names, sep) ==
    IF names = <<>> THEN ""
    ELSE IF Len(names) = 1 THEN names[1]
    ELSE names[1] \o sep \o Join(Tail(names), sep)

\* line 211
CompareQuery(tool_names) ==
    "compare " \o Join(tool_names, " vs ") \o " for software engineering automation"

\* line 209
CompareError == [pytype |-> "dict", error |-> "No tools provided for comparison", query |-> ""]

\* line 212: compare_tools returns whatever research_topic(query) returns
Delegated(query) == [pytype |-> "research_topic", error |-> "", query |-> query]

\* mutant: the empty list is not turned away
CompareTools_no_guard(tool_names) ==
    /\ Ready
    /\ agent_class = "ResearchAgent"
    /\ ct_count < MaxCompare
    /\ ct_count' = ct_count + 1
    /\ ct_args' = tool_names
    /\ RTEnter(CompareQuery(tool_names), DefaultMaxResults)
    /\ ct_ret' = Delegated(CompareQuery(tool_names))

\* compare_tools, lines 198-212
CompareTools(tool_names) ==
    /\ Ready
    /\ agent_class = "ResearchAgent"
    /\ ct_count < MaxCompare
    /\ ct_count' = ct_count + 1
    /\ ct_args' = tool_names
    /\ IF tool_names = <<>>
       THEN /\ ct_ret' = CompareError
            /\ UNCHANGED <<agent_class, state, tools, memory, inserted, act_pc, act_args,
                           act_mem0, act_caught, act_exit, act_ret, rt_pc, rt_domain,
                           rt_max, all_results, rt_exit, add_ret>>
            /\ UNCHANGED <<rt_topic, rt_calls, rt_ret, rt_llm_calls>>
            /\ UNCHANGED scrapeVars
            /\ UNCHANGED otherVars
       ELSE /\ RTEnter(CompareQuery(tool_names), DefaultMaxResults)
            /\ ct_ret' = Delegated(CompareQuery(tool_names))

(***************************************************************************)
(* ScraperManager (scrapers/__init__.py)                                   *)
(***************************************************************************)
\* the i-th registered scraper name; __init__ registers tech_news first
ScraperName(i) == IF i = 1 THEN "tech_news" ELSE "scraper" \o ToString(i)

Registry(n) == [i \in 1..n |-> ScraperName(i)]

PublishedDates == 1..MaxDate

\* an article is identified by its scraper and its url (here: the position in
\* that scraper's output); published_date is the sort key
ScrapedArticle(source, url, published_date) ==
    [source |-> source, url |-> url, published_date |-> published_date]

DateLists == UNION {[1..n -> PublishedDates] : n \in 0..MaxArticles}

\* exception classes a scraper may raise
ExcTypes == {"ValueError", "RuntimeError"}

Raised(type, m) == [exc |-> TRUE, type |-> type, msg |-> m, val |-> None]
Returned(v) == [exc |-> FALSE, type |-> "", msg |-> "", val |-> Some(v)]

\* await scraper.scrape(query): raises, or returns a list of articles
ScrapeOutcomes(name) ==
    {Raised(t, "scrape failed") : t \in ExcTypes}
    \cup {Returned([k \in 1..Len(ds) |-> ScrapedArticle(name, k, ds[k])]) : ds \in DateLists}

\* mutant: an article is placed before the articles of the same date
SortedInsert_before_ties(sorted, a) ==
    LET before == {i \in 1..Len(sorted) : sorted[i].published_date > a.published_date}
        n == Cardinality(before)
    IN  SubSeq(sorted, 1, n) \o <<a>> \o SubSeq(sorted, n + 1, Len(sorted))

\* list.sort(key=published_date, reverse=True) is a stable sort: an element goes
\* behind every element whose key is greater than or equal to its own
SortedInsert(sorted, a) ==
    LET before == {i \in 1..Len(sorted) : sorted[i].published_date >= a.published_date}
        n == Cardinality(before)
    IN  SubSeq(sorted, 1, n) \o <<a>> \o SubSeq(sorted, n + 1, Len(sorted))

RECURSIVE SortByDateDesc(_)
SortByDateDesc(list) ==
    IF list = <<>> THEN <<>>
    ELSE SortedInsert(SortByDateDesc(SubSeq(list, 1, Len(list) - 1)), list[Len(list)])

NoCall == [source |-> "", invoked |-> <<>>, scraped |-> Returned(<<>>),
           outcome |-> Returned(<<>>)]
NoResponse == [status |-> 0, body |-> None, detail |-> ""]

ScrapeInit(n) ==
    /\ scrapers = Registry(n)
    /\ sa_pc = "none"
    /\ sa_idx = 0
    /\ all_articles = <<>>
    /\ sa_exit = "none"
    /\ sa_log = <<>>
    /\ ss_call = NoCall
    /\ http = NoResponse

\* scrape_all, line 19
ScrapeAllBegin ==
    /\ sa_pc = "none"
    /\ all_articles' = <<>>
    /\ sa_idx' = 1
    /\ sa_pc' = "loop"
    /\ sa_exit' = "none"
    /\ sa_log' = <<>>
    /\ ss_call' = NoCall
    /\ http' = NoResponse
    /\ UNCHANGED scrapers
    /\ UNCHANGED <<memory, inserted>>
    /\ UNCHANGED agentVars
    /\ UNCHANGED otherVars

\* mutant: an exception of a scraper is not caught and ends scrape_all
ScrapeAllRun_abort ==
    /\ sa_pc = "loop"
    /\ sa_idx <= Len(scrapers)
    /\ \E outcome \in ScrapeOutcomes(scrapers[sa_idx]) :
         /\ all_articles' = IF outcome.exc
                            THEN all_articles
                            ELSE all_articles \o outcome.val[1]
         /\ sa_log' = Append(sa_log, outcome)
         /\ sa_pc' = IF outcome.exc THEN "none" ELSE sa_pc
         /\ sa_exit' = IF outcome.exc THEN "raise" ELSE sa_exit
    /\ sa_idx' = sa_idx + 1
    /\ UNCHANGED <<scrapers, ss_call, http>>
    /\ UNCHANGED <<memory, inserted>>
    /\ UNCHANGED agentVars
    /\ UNCHANGED otherVars

\* scrape_all, lines 21-29: one iteration of the loop over the scrapers
ScrapeAllRun ==
    /\ sa_pc = "loop"
    /\ sa_idx <= Len(scrapers)
    /\ \E outcome \in ScrapeOutcomes(scrapers[sa_idx]) :
         /\ all_articles' = IF outcome.exc
                            THEN all_articles
                            ELSE all_articles \o outcome.val[1]
         /\ sa_log' = Append(sa_log, outcome)
    /\ sa_idx' = sa_idx + 1
    /\ UNCHANGED <<scrapers, sa_pc, sa_exit, ss_call, http>>
    /\ UNCHANGED <<memory, inserted>>
    /\ UNCHANGED agentVars
    /\ UNCHANGED otherVars

\* scrape_all, lines 31-33: the list is sorted in place and returned
ScrapeAllSort ==
    /\ sa_pc = "loop"
    /\ sa_idx > Len(scrapers)
    /\ all_articles' = SortByDateDesc(all_articles)
    /\ sa_pc' = "none"
    /\ sa_exit' = "return"
    /\ UNCHANGED <<scrapers, sa_idx, sa_log, ss_call, http>>
    /\ UNCHANGED <<memory, inserted>>
    /\ UNCHANGED agentVars
    /\ UNCHANGED otherVars

\* names a client may put in the path of GET /scrape/{source}
SourceNames == {ScraperName(i) : i \in 1..MaxScrapers} \cup {"nosuch"}

\* scrape_single, lines 35-40: the scrapers it runs, what the scraper did and
\* what the call does, for one outcome of the scraper
scrape_single(reg, source, scraped) ==
    IF source \notin {reg[i] : i \in 1..Len(reg)}
    THEN [source |-> source, invoked |-> <<>>, scraped |-> Returned(<<>>),
          outcome |-> Raised("ValueError", "Unknown scraper: " \o source)]
    ELSE [source |-> source, invoked |-> <<source>>, scraped |-> scraped,
          outcome |-> scraped]

\* scrape_source (main.py, lines 53-68): the response for one scrape_single call
scrape_source(call) ==
    IF ~call.outcome.exc
    THEN [status |-> 200, body |-> call.outcome.val, detail |-> ""]
    ELSE IF call.outcome.type = "ValueError"
    THEN [status |-> 404, body |-> None, detail |-> call.outcome.msg]
    ELSE [status |-> 500, body |-> None, detail |-> call.outcome.msg]

\* GET /scrape/{source}. The manager keeps nothing from one request to the
\* next, so the request is taken where no record of a scrape_all call is held
ScrapeSource(source) ==
    /\ sa_pc = "none"
    /\ sa_exit = "none"
    /\ \E scraped \in ScrapeOutcomes(source) :
         LET call == scrape_single(scrapers, source, scraped)
         IN  /\ ss_call' = call
             /\ http' = scrape_source(call)
    /\ UNCHANGED <<scrapers, sa_pc, sa_idx, all_articles, sa_exit, sa_log>>
    /\ UNCHANGED <<memory, inserted>>
    /\ UNCHANGED agentVars
    /\ UNCHANGED otherVars

(***************************************************************************)
(* BaseScraper._make_request (base_scraper.py)                             *)
(***************************************************************************)
\* BaseScraper.__init__, lines 31-36; the clock reads StartTime
FetchInit(rl) ==
    /\ clock = StartTime
    /\ rate_limit = rl
    /\ last_request_time = 0
    /\ req_log = <<>>
    /\ mr_ret = None
    /\ mr_exit = "none"

\* what client.request / raise_for_status do: the response, or an exception
RequestOutcomes == {"ok", "HTTPStatusError", "RequestError", "Exception"}

\* the except clauses of lines 66-71
Caught(e) == e \in {"HTTPStatusError", "RequestError", "Exception"}

\* lines 41-43: the time at which the request is issued, after the sleep
IssueTime(t, last, rl) ==
    IF t - last < rl THEN t + (rl - (t - last)) ELSE t

\* time passes between two calls
Tick ==
    /\ clock < MaxTime
    /\ clock' = clock + 1
    /\ UNCHANGED <<rate_limit, last_request_time, req_log, mr_ret, mr_exit>>
    /\ UNCHANGED <<memory, inserted>>
    /\ UNCHANGED agentVars
    /\ UNCHANGED scrapeVars
    /\ UNCHANGED <<techVars, dedupVars>>

\* mutant: the time of the request is recorded on every path
MakeRequest_stamp_always(outcome, duration) ==
    LET issued == IssueTime(clock, last_request_time, rate_limit)
        completed == issued + duration
    IN  /\ Len(req_log) < MaxRequests
        /\ completed <= MaxTime
        /\ clock' = completed
        /\ req_log' = Append(req_log, [issued |-> issued, completed |-> completed,
                                        outcome |-> outcome])
        /\ last_request_time' = completed
        /\ IF outcome = "ok"
           THEN /\ mr_ret' = Some("response")
                /\ mr_exit' = "return"
           ELSE /\ mr_ret' = None
                /\ mr_exit' = IF Caught(outcome) THEN "return" ELSE "raise"
        /\ UNCHANGED rate_limit
        /\ UNCHANGED <<memory, inserted>>
        /\ UNCHANGED agentVars
        /\ UNCHANGED scrapeVars
        /\ UNCHANGED <<techVars, dedupVars>>

\* _make_request, lines 38-73: sleep until the rate limit allows, issue the
\* request, which takes `duration` and ends with `outcome`
MakeRequest(outcome, duration) ==
    LET issued == IssueTime(clock, last_request_time, rate_limit)
        completed == issued + duration
    IN  /\ Len(req_log) < MaxRequests
        /\ completed <= MaxTime
        /\ clock' = completed
        /\ req_log' = Append(req_log, [issued |-> issued, completed |-> completed,
                                        outcome |-> outcome])
        /\ IF outcome = "ok"
           THEN /\ last_request_time' = completed
                /\ mr_ret' = Some("response")
                /\ mr_exit' = "return"
           ELSE /\ last_request_time' = last_request_time
                /\ mr_ret' = None
                /\ mr_exit' = IF Caught(outcome) THEN "return" ELSE "raise"
        /\ UNCHANGED rate_limit
        /\ UNCHANGED <<memory, inserted>>
        /\ UNCHANGED agentVars
        /\ UNCHANGED scrapeVars
        /\ UNCHANGED <<techVars, dedupVars>>

(***************************************************************************)
(* TechNewsScraper.scrape (sources/tech_news_scraper.py)                   *)
(***************************************************************************)
\* what an entry of a feed is for _process_entry: one it turns into an
\* article, one it drops (no link, or not about AI), one on which it raises
EntryKinds == {"article", "irrelevant", "raises"}

RECURSIVE Repeat(_, _)
Repeat(x, n) == IF n = 0 THEN <<>> ELSE <<x>> \o Repeat(x, n - 1)

\* the entry lists of the feeds: short ones, and ones longer than the limit
ShortFeeds == UNION {[1..n -> EntryKinds] : n \in 0..MaxEntries}
LongFeeds == {<<k>> \o Repeat("article", EntryLimit - 2) \o <<k, "article">> : k \in EntryKinds}

\* feedparser.parse(feed_url), line 36: raises, or returns a feed with entries
ParseOutcomes == {Raised("RuntimeError", "parse failed")}
                 \cup {Returned(es) : es \in ShortFeeds \cup LongFeeds}

\* the article made from entry k of feed f
FeedArticle(f, k) == [feed |-> f, entry |-> k]

\* _process_entry, lines 53-95
_process_entry(f, k, kind) ==
    IF kind = "raises" THEN Raised("RuntimeError", "entry failed")
    ELSE IF kind = "irrelevant" THEN Returned(None)
    ELSE Returned(Some(FeedArticle(f, k)))

\* mutant: an exception of _process_entry ends the loop over the entries
RECURSIVE ProcessEntries_no_inner_try(_, _, _, _)
ProcessEntries_no_inner_try(f, entries, k, articles) ==
    IF k > Len(entries) THEN articles
    ELSE LET r == _process_entry(f, k, entries[k])
         IN  IF r.exc THEN articles
             ELSE ProcessEntries_no_inner_try(f, entries, k + 1,
                      IF r.val[1] = None THEN articles ELSE Append(articles, r.val[1][1]))

\* lines 38-45: the loop over the entries, from entry k on
RECURSIVE ProcessEntries(_, _, _, _)
ProcessEntries(f, entries, k, articles) ==
    IF k > Len(entries) THEN articles
    ELSE LET r == _process_entry(f, k, entries[k])
         IN  ProcessEntries(f, entries, k + 1,
                 IF r.exc \/ r.val[1] = None THEN articles
                 ELSE Append(articles, r.val[1][1]))

\* entries[:10]
FirstEntries(entries) ==
    SubSeq(entries, 1, IF Len(entries) < EntryLimit THEN Len(entries) ELSE EntryLimit)

TechInit ==
    /\ tn_pc = "none"
    /\ tn_feed = 0
    /\ tn_articles = <<>>
    /\ tn_log = <<>>
    /\ tn_exit = "none"

\* scrape, line 31
TechScrapeBegin ==
    /\ tn_pc = "none"
    /\ tn_pc' = "loop"
    /\ tn_feed' = 1
    /\ tn_articles' = <<>>
    /\ tn_log' = <<>>
    /\ tn_exit' = "none"
    /\ UNCHANGED <<memory, inserted>>
    /\ UNCHANGED agentVars
    /\ UNCHANGED scrapeVars
    /\ UNCHANGED <<fetchVars, dedupVars>>

\* scrape, lines 33-49: one iteration of the loop over the feeds
TechScrapeFeed ==
    /\ tn_pc = "loop"
    /\ tn_feed <= NumFeeds
    /\ \E parsed \in ParseOutcomes :
         /\ tn_log' = Append(tn_log, parsed)
         /\ tn_articles' = IF parsed.exc
                           THEN tn_articles
                           ELSE ProcessEntries(tn_feed, FirstEntries(parsed.val[1]), 1,
                                               tn_articles)
    /\ tn_feed' = tn_feed + 1
    /\ UNCHANGED <<tn_pc, tn_exit>>
    /\ UNCHANGED <<memory, inserted>>
    /\ UNCHANGED agentVars
    /\ UNCHANGED scrapeVars
    /\ UNCHANGED <<fetchVars, dedupVars>>

\* scrape, line 51
TechScrapeReturn ==
    /\ tn_pc = "loop"
    /\ tn_feed > NumFeeds
    /\ tn_pc' = "none"
    /\ tn_exit' = "return"
    /\ UNCHANGED <<tn_feed, tn_articles, tn_log>>
    /\ UNCHANGED <<memory, inserted>>
    /\ UNCHANGED agentVars
    /\ UNCHANGED scrapeVars
    /\ UNCHANGED <<fetchVars, dedupVars>>

(***************************************************************************)
(* The deduplication step of research_topic run on its own                 *)
(***************************************************************************)
DedupInit(results, max_results) ==
    /\ dd_in = results
    /\ dd_max = max_results
    /\ dd_out = None

\* the step runs on the inputs drawn
DedupApply ==
    /\ dd_out = None
    /\ dd_out' = Some(Dedup(dd_in, dd_max))
    /\ UNCHANGED <<dd_in, dd_max>>
    /\ UNCHANGED <<memory, inserted>>
    /\ UNCHANGED agentVars
    /\ UNCHANGED scrapeVars
    /\ UNCHANGED <<fetchVars, techVars>>

OtherInit == FetchInit(DefaultRateLimit) /\ TechInit /\ DedupInit(<<>>, 0)

Init == AgentInit /\ ScrapeInit(1) /\ OtherInit

Next ==
    \/ \E t \in ToolObjects : AddTool(t)
    \/ \E a \in ActionNames : Act(a)
    \/ ActTry
    \/ ActFinally
    \/ \E t \in Topics, m \in MaxResultsArgs : RTBegin(t, m)
    \/ RTSearch
    \/ RTCheck
    \/ RTExcept
    \/ RTFinally
    \/ \E names \in ToolNameLists : CompareTools(names)

Spec == Init /\ [][Next]_vars

(***************************************************************************)
(* Memory on its own: any bound, any sequence of add_observation calls     *)
(***************************************************************************)
AddObservation(content) ==
    /\ Len(inserted) < MaxItems
    /\ MemoryAdd(content)
    /\ UNCHANGED agentVars
    /\ UNCHANGED scrapeVars
    /\ UNCHANGED otherVars

MemoryInit ==
    /\ AgentInit
    /\ ScrapeInit(1)
    /\ OtherInit
    /\ agent_class = "AIAgent"
    /\ tools = EmptyTools

MemoryNext == \E c \in Contents : AddObservation(c)

SpecMemory == MemoryInit /\ [][MemoryNext]_vars

(***************************************************************************)
(* The scraper manager on its own: any number of registered scrapers       *)
(***************************************************************************)
ScrapeManagerInit ==
    /\ AgentInit
    /\ agent_class = "AIAgent"
    /\ tools = EmptyTools
    /\ memory = NewMemory(0)
    /\ \E n \in 1..MaxScrapers : ScrapeInit(n)
    /\ OtherInit

ScrapeNext ==
    \/ ScrapeAllBegin
    \/ ScrapeAllRun
    \/ ScrapeAllSort
    \/ \E source \in SourceNames : ScrapeSource(source)

SpecScrape == ScrapeManagerInit /\ [][ScrapeNext]_vars

(***************************************************************************)
(* One scraper issuing requests: either rate limit the program uses        *)
(***************************************************************************)
FetchSpecInit ==
    /\ AgentInit
    /\ agent_class = "AIAgent"
    /\ tools = EmptyTools
    /\ memory = NewMemory(0)
    /\ ScrapeInit(1)
    /\ \E rl \in {DefaultRateLimit, TechNewsRateLimit} : FetchInit(rl)
    /\ TechInit
    /\ DedupInit(<<>>, 0)

FetchNext ==
    \/ Tick
    \/ \E outcome \in RequestOutcomes, duration \in 0..MaxDuration :
          MakeRequest(outcome, duration)

SpecFetch == FetchSpecInit /\ [][FetchNext]_vars

(***************************************************************************)
(* The tech news scraper on its own                                        *)
(***************************************************************************)
TechSpecInit ==
    /\ AgentInit
    /\ agent_class = "AIAgent"
    /\ tools = EmptyTools
    /\ memory = NewMemory(0)
    /\ ScrapeInit(1)
    /\ FetchInit(TechNewsRateLimit)
    /\ TechInit
    /\ DedupInit(<<>>, 0)

TechNext ==
    \/ TechScrapeBegin
    \/ TechScrapeFeed
    \/ TechScrapeReturn

SpecTech == TechSpecInit /\ [][TechNext]_vars

(***************************************************************************)
(* The deduplication step on every small input                             *)
(***************************************************************************)
DedupSpecInit ==
    /\ AgentInit
    /\ agent_class = "AIAgent"
    /\ tools = EmptyTools
    /\ memory = NewMemory(0)
    /\ ScrapeInit(1)
    /\ FetchInit(DefaultRateLimit)
    /\ TechInit
    /\ \E results \in DedupLists, max_results \in 0..MaxMaxResults :
          DedupInit(results, max_results)

DedupNext == DedupApply

SpecDedup == DedupSpecInit /\ [][DedupNext]_vars

(***************************************************************************)
(* Properties of act                                                       *)
(***************************************************************************)
ActRegistered == act_args.action \in DOMAIN tools

\* C1: act never raises: when its try statement has completed, whatever the
\* tool did (missing, raised, returned a ToolResult), act is about to return a
\* mapping with the keys success, output and error; for an unregistered action
\* name that mapping has success false, output None and a non-empty error.
C1_ActNeverRaises ==
    /\ act_exit # "raise"
    /\ act_pc = "finally" =>
         /\ act_exit = "return"
         /\ act_ret.pytype = "dict"
         /\ {"success", "output", "error"} \subseteq DOMAIN act_ret
         /\ ~ActRegistered =>
              /\ act_ret.success = FALSE
              /\ act_ret.output = None
              /\ act_ret.error # None
              /\ Len(act_ret.error[1]) > 0

C1_Witness ==
    /\ act_pc = "finally"
    /\ ~ActRegistered
    /\ act_exit = "return"
    /\ act_ret.success = FALSE

\* C2 as stated: every act call, successful or not, leaves the memory one item
\* larger than it was when the call was entered.
C2_EveryActObserves ==
    act_pc = "finally" => MemCount(memory) = act_mem0 + 1

\* C2 amended: an act call records exactly one observation when the tool was
\* found and returned a ToolResult (successful or failed); when the tool is
\* not registered or raises, the except clause runs and the memory is unchanged.
C2_ActObservesReturnedResult ==
    act_pc = "finally" =>
        /\ ~ActRegistered => act_caught
        /\ ~act_caught =>
              /\ MemCount(memory) = act_mem0 + 1
              /\ inserted[Len(inserted)].content = "Executed " \o act_args.action
        /\ act_caught => MemCount(memory) = act_mem0

C2_Witness ==
    /\ act_pc = "finally"
    /\ ~act_caught
    /\ act_ret.success = FALSE
    /\ MemCount(memory) = act_mem0 + 1

\* C3: while an act call runs the state is acting, and when the call returns
\* the state is idle, whatever the outcome and whatever the state was before.
C3_ActingThenIdle ==
    /\ [](act_pc # "none" => state = "acting")
    /\ [][(act_pc # "none" /\ act_pc' = "none") => state' = "idle"]_vars

\* an act call entered in state error (left by a failed research_topic) returned
C3_Witness ==
    /\ agent_class = "ResearchAgent"
    /\ Ready
    /\ rt_exit = "raise"
    /\ act_exit = "return"
    /\ act_args.query = "q"
    /\ act_caught
    /\ state = "idle"

(***************************************************************************)
(* Properties of research_topic                                            *)
(***************************************************************************)
\* C4 as stated: research_topic ends either returning a result with the state
\* idle or raising with the state error, and with a web-search tool that never
\* raises (WebSearchTool.execute returns a ToolResult on every path) it returns
\* a result and the state is idle.
C4_ResearchReturns ==
    [][(rt_pc = "finally" /\ rt_pc' = "none") =>
          /\ \/ rt_exit' = "return" /\ state' = "idle"
             \/ rt_exit' = "raise" /\ state' = "error"
          /\ tools["web_search"] = "WebSearchTool" =>
                (rt_exit' = "return" /\ state' = "idle")]_vars

\* C5 as stated: the state only changes along idle -> acting, acting -> idle or
\* error, idle -> thinking, thinking -> idle or error.
C5_ClaimedTransitionsOnly ==
    [][state' # state =>
          <<state, state'>> \in
             {<<"idle", "acting">>, <<"acting", "idle">>, <<"acting", "error">>,
              <<"idle", "thinking">>, <<"thinking", "idle">>, <<"thinking", "error">>}]_vars

\* C5 amended: besides the claimed transitions the state also changes along
\* thinking -> acting (act called by research_topic), error -> acting and
\* error -> thinking (an operation entered after a failed research_topic) and
\* idle -> error (the except clause of research_topic after a nested act has
\* reset the state); acting is entered only on entry of act and left only on
\* its exit, thinking is entered only on entry of research_topic.
C5_Transitions ==
    [][state' # state =>
          /\ <<state, state'>> \in
                {<<"idle", "acting">>, <<"acting", "idle">>, <<"acting", "error">>,
                 <<"idle", "thinking">>, <<"thinking", "idle">>, <<"thinking", "error">>,
                 <<"thinking", "acting">>, <<"error", "acting">>,
                 <<"error", "thinking">>, <<"idle", "error">>}
          /\ state' = "acting" <=> (act_pc = "none" /\ act_pc' = "try")
          /\ state = "acting" <=> (act_pc = "finally" /\ act_pc' = "none")
          /\ state' = "thinking" <=> (rt_pc = "none" /\ rt_pc' = "search")]_vars

\* research_topic is still running, its nested act call has returned and has
\* left the state idle
C5_Witness ==
    /\ rt_pc = "check"
    /\ state = "idle"
    /\ act_exit = "return"

(***************************************************************************)
(* Properties of Memory                                                    *)
(***************************************************************************)
\* C6 as stated: for every bound B >= 0 the short-term length is at most B
\* whenever add_observation has returned.
C6_ShortTermWithinBound ==
    Len(memory.short_term) <= memory.max_short_term

\* C6 amended: for every bound B >= 1 the short-term length is at most B
\* whenever add_observation has returned; with B = 0 consolidation runs on
\* every insertion and leaves exactly one item in short-term.
C6_ShortTermWithinPositiveBound ==
    /\ memory.max_short_term >= 1 => Len(memory.short_term) <= memory.max_short_term
    /\ (memory.max_short_term = 0 /\ inserted # <<>>) => Len(memory.short_term) = 1

C6_Witness ==
    /\ memory.max_short_term >= 1
    /\ Len(inserted) > memory.max_short_term
    /\ memory.long_term # <<>>
    /\ Len(memory.short_term) <= memory.max_short_term

\* C7: after exactly B+1 insertions into an empty Memory of bound B the
\* short-term length is at most ceil(B/2)+1 and the long-term length at least
\* floor(B/2).
C7_AfterBoundPlusOne ==
    Len(inserted) = memory.max_short_term + 1 =>
        /\ Len(memory.short_term) <= ((memory.max_short_term + 1) \div 2) + 1
        /\ Len(memory.long_term) >= memory.max_short_term \div 2

C7_Witness ==
    /\ memory.max_short_term = 2
    /\ Len(inserted) = 3
    /\ Len(memory.long_term) = 1
    /\ Len(memory.short_term) = 2

\* C8: items are moved, never copied or lost: long_term followed by short_term
\* is the sequence of inserted items in insertion order, every long-term item
\* is older than every short-term item, and an insertion that makes the
\* short-term length N exceed the bound moves exactly floor(N/2) items, the
\* oldest ones, to the end of long-term (any other insertion moves none).
C8_MovedNeverCopied ==
    /\ [](/\ memory.long_term \o memory.short_term = inserted
          /\ \A i \in 1..Len(memory.long_term) : \A j \in 1..Len(memory.short_term) :
                memory.long_term[i].timestamp < memory.short_term[j].timestamp)
    /\ [][inserted' # inserted =>
            LET N == Len(memory.short_term) + 1
                moved == IF N > memory.max_short_term THEN N \div 2 ELSE 0
            IN  /\ memory'.long_term =
                      memory.long_term \o SubSeq(memory.short_term, 1, moved)
                /\ Len(memory'.short_term) = N - moved]_vars

C8_Witness ==
    /\ memory.max_short_term = 2
    /\ Len(memory.long_term) = 2
    /\ Len(memory.short_term) = 2
    /\ Len(inserted) = 4

(***************************************************************************)
(* Properties of the tool registry                                         *)
(***************************************************************************)
\* C9: add_tool with a registered name raises and leaves the registry as it
\* was, add_tool with a new name adds exactly that binding, and no step of any
\* operation removes or rebinds a registered name.
C9_RegistryNamesUnique ==
    /\ [](\A n \in DOMAIN tools : ToolName(tools[n]) = n)
    /\ [][\A n \in DOMAIN tools : n \in DOMAIN tools' /\ tools'[n] = tools[n]]_vars
    /\ [][(add_ret' # add_ret \/ tools' # tools) =>
            LET t == add_ret'.tool
            IN  IF ToolName(t) \in DOMAIN tools
                THEN add_ret'.exit = "raise" /\ tools' = tools
                ELSE /\ add_ret'.exit = "return"
                     /\ DOMAIN tools' = DOMAIN tools \cup {ToolName(t)}
                     /\ tools'[ToolName(t)] = t]_vars

\* a second tool object named calc was refused and the first one is still bound
C9_Witness ==
    /\ add_ret = [tool |-> "CustomToolB", exit |-> "raise"]
    /\ "calc" \in DOMAIN tools
    /\ tools["calc"] = "CustomToolA"

(***************************************************************************)
(* Properties of the scraper manager                                       *)
(***************************************************************************)
\* the position of an article in the order of collection: scrapers in
\* registration order, then the scraper's own output order
ScraperIndex(name) == CHOOSE i \in 1..Len(scrapers) : scrapers[i] = name

CollectedBefore(a, b) ==
    \/ ScraperIndex(a.source) < ScraperIndex(b.source)
    \/ a.source = b.source /\ a.url < b.url

\* C10: the list scrape_all returns is ordered by published_date
\* non-increasing, and articles of equal published_date are in the order in
\* which they were collected.
C10_SortedNewestFirstStable ==
    (sa_pc = "none" /\ sa_exit = "return") =>
        \A i \in 1..Len(all_articles) : \A j \in 1..Len(all_articles) :
            i < j =>
               /\ all_articles[i].published_date >= all_articles[j].published_date
               /\ all_articles[i].published_date = all_articles[j].published_date
                     => CollectedBefore(all_articles[i], all_articles[j])

\* a returned list with a tie inside one scraper's output, a tie across two
\* scrapers, and an older article collected first
C10_Witness ==
    /\ sa_pc = "none"
    /\ sa_exit = "return"
    /\ Len(all_articles) = 4
    /\ all_articles[1] = ScrapedArticle("scraper2", 1, 2)
    /\ all_articles[2] = ScrapedArticle("tech_news", 1, 1)
    /\ all_articles[3] = ScrapedArticle("tech_news", 2, 1)
    /\ all_articles[4] = ScrapedArticle("scraper2", 2, 1)

\* concatenation of the lists the scrapers of a log returned
RECURSIVE ReturnedArticles(_)
ReturnedArticles(log) ==
    IF log = <<>> THEN <<>>
    ELSE ReturnedArticles(SubSeq(log, 1, Len(log) - 1)) \o
         (IF log[Len(log)].exc THEN <<>> ELSE log[Len(log)].val[1])

SeqRange(q) == {q[i] : i \in 1..Len(q)}

\* C11: scrape_all never raises; when it returns, every registered scraper has
\* been run, whichever of them raised, and the list returned is a permutation
\* of the articles returned by the scrapers that did not raise.
C11_BestEffortAggregation ==
    /\ sa_exit # "raise"
    /\ (sa_pc = "none" /\ sa_exit = "return") =>
          /\ Len(sa_log) = Len(scrapers)
          /\ Len(all_articles) = Len(ReturnedArticles(sa_log))
          /\ SeqRange(all_articles) = SeqRange(ReturnedArticles(sa_log))

\* the first scraper raised, the second one was still run and its articles are
\* the result
C11_Witness ==
    /\ sa_pc = "none"
    /\ sa_exit = "return"
    /\ Len(sa_log) = 2
    /\ sa_log[1].exc
    /\ ~sa_log[2].exc
    /\ Len(all_articles) = 2
    /\ \A i \in 1..2 : all_articles[i].source = "scraper2"

C13_MinimumInterval ==
    \A i \in 2..Len(req_log) :
        req_log[i].issued >= req_log[i-1].issued + rate_limit

ArticlePositions(entries) ==
    {k \in 1..Len(entries) : k <= EntryLimit /\ entries[k] = "article"}

\* the articles of the result that come from feed f, in result order
FromFeed(f) == SelectSeq(tn_articles, LAMBDA a : a.feed = f)

\* C15: TechNewsScraper.scrape never raises; when it returns every feed has
\* been visited; a feed whose parsing raised contributes nothing; any other
\* feed contributes exactly the articles of those of its first 10 entries that
\* _process_entry accepts, whatever the other entries did; the result is in
\* feed order, then entry order, with at most 10 articles per feed.
C15_PartialFailureAbsorbed ==
    /\ tn_exit # "raise"
    /\ (tn_pc = "none" /\ tn_exit = "return") =>
          /\ Len(tn_log) = NumFeeds
          /\ \A f \in 1..NumFeeds :
                /\ Len(FromFeed(f)) <= EntryLimit
                /\ {a.entry : a \in SeqRange(FromFeed(f))} =
                      (IF tn_log[f].exc THEN {} ELSE ArticlePositions(tn_log[f].val[1]))
                /\ Len(FromFeed(f)) = Cardinality({a.entry : a \in SeqRange(FromFeed(f))})
          /\ \A i, j \in 1..Len(tn_articles) :
                i < j => \/ tn_articles[i].feed < tn_articles[j].feed
                         \/ /\ tn_articles[i].feed = tn_articles[j].feed
                            /\ tn_articles[i].entry < tn_articles[j].entry

\* the first feed failed to parse, the second has more than 10 entries of
\* which the first and the tenth raise: entries 2 to 9 are the result of that
\* feed, and the last feed still contributes its article
C15_Witness ==
    /\ tn_pc = "none"
    /\ tn_exit = "return"
    /\ tn_log[1].exc
    /\ ~tn_log[2].exc
    /\ Len(tn_log[2].val[1]) > EntryLimit
    /\ tn_log[2].val[1][1] = "raises"
    /\ ~tn_log[4].exc
    /\ tn_log[4].val[1] = <<"article">>
    /\ Len(FromFeed(2)) = EntryLimit - 2
    /\ tn_articles[Len(tn_articles)] = FeedArticle(4, 1)

\* the position in dd_in of the first result with url u
FirstIndex(u) == CHOOSE i \in 1..Len(dd_in) :
                     dd_in[i].url = u /\ \A j \in 1..(i-1) : dd_in[j].url # u

\* C17 as stated: for every list and every max_results >= 0, 0 included, the
\* deduplicated list (i) is a subsequence of the input in encounter order,
\* (ii) has no two results with the same url and holds the first occurrence of
\* each url it has, and (iii) is at most max_results long.
C17_DedupBounded ==
    dd_out # None =>
        LET out == dd_out[1]
        IN  /\ \A k \in 1..Len(out) :
                  /\ out[k].url # ""
                  /\ \E i \in 1..Len(dd_in) : dd_in[i].url = out[k].url
                  /\ out[k] = dd_in[FirstIndex(out[k].url)]
            /\ \A k, l \in 1..Len(out) :
                  k < l => /\ out[k].url # out[l].url
                           /\ FirstIndex(out[k].url) < FirstIndex(out[l].url)
            /\ Len(out) <= dd_max

\* a search call of research_topic that yielded no result
ZeroResults(call) ==
    ~(call.ret.success /\ call.ret.output # None /\ call.ret.output[1].results # <<>>)

\* C16 as stated: when every search of a research_topic call yielded zero
\* results, the call returns a result whose analysis is the fixed "No relevant
\* information found." summary with no key points, results_found is 0, and no
\* LLM generation call was made.
C16_NothingFound ==
    (rt_pc = "finally" /\ \A i \in 1..Len(rt_calls) : ZeroResults(rt_calls[i])) =>
        /\ rt_exit = "return"
        /\ rt_ret # None
        /\ rt_ret[1].analysis = Analysis("No relevant information found.", <<>>, None)
        /\ rt_ret[1].results_found = 0
        /\ rt_llm_calls = 0

\* C18 as stated: a research_topic call makes one site-scoped search per
\* domain of the allowlist, in order, each asking for 3 results, and then the
\* general search asking for 2 * max_results results exactly when no domain
\* search returned a result: 7 or 8 tool calls.
C18_SearchPlan ==
    rt_pc = "finally" =>
        /\ Len(rt_calls) \in {Len(search_domains), Len(search_domains) + 1}
        /\ \A i \in 1..Len(search_domains) :
              /\ rt_calls[i].query =
                    "site:" \o search_domains[i] \o " " \o search_query(rt_topic)
              /\ rt_calls[i].num_results = DomainNumResults
        /\ Len(rt_calls) = Len(search_domains) + 1 <=>
              \A i \in 1..Len(search_domains) : ZeroResults(rt_calls[i])
        /\ Len(rt_calls) = Len(search_domains) + 1 =>
              /\ rt_calls[Len(rt_calls)].query = search_query(rt_topic)
              /\ rt_calls[Len(rt_calls)].num_results = 2 * rt_max

\* a failed outcome without output names its error
FailureCarriesError(r) ==
    (r.success = FALSE /\ r.output = None) => (r.error # None /\ r.error[1] # "")

\* C19 as stated: every mapping act returns with success false and output None
\* carries a non-empty error, whatever tool is registered and whatever it does.
C19_FailureCarriesErrorAnyTool ==
    act_pc = "finally" => FailureCarriesError(act_ret)

\* C19, amended: every ToolResult of WebSearchTool.execute with success false
\* and output None carries a non-empty error, and so does every mapping act
\* returns that its except clause built or that comes from WebSearchTool.
C19_FailureCarriesError ==
    /\ \A sw \in SearchWebOutcomes :
          FailureCarriesError(WebSearchTool_execute(act_args.query, act_args.num_results, sw))
    /\ (/\ act_pc = "finally"
        /\ \/ act_caught
           \/ /\ act_args.action \in DOMAIN tools
              /\ tools[act_args.action] = "WebSearchTool")
          => FailureCarriesError(act_ret)

\* the search behind the web-search tool raised an exception without message:
\* the mapping act returns still has an error text
C19_Witness ==
    /\ act_pc = "finally"
    /\ act_args.action = "web_search"
    /\ ~act_caught
    /\ act_ret.success = FALSE
    /\ act_ret.output = None
    /\ act_ret.error = Some("Error performing web search: ")

\* C20: compare_tools with an empty list returns the error object and changes
\* nothing else: no act call, no LLM call, no observation, no state change;
\* with a non-empty list the call is research_topic on the comparison query
\* with the default max_results.
C20_CompareTools ==
    [][ct_count' = ct_count + 1 =>
          IF ct_args' = <<>>
          THEN /\ ct_ret' = CompareError
               /\ UNCHANGED <<state, memory, inserted, tools, act_pc, act_args, act_ret,
                              rt_pc, rt_topic, rt_calls, rt_ret, rt_llm_calls, rt_exit>>
          ELSE LET query == "compare " \o Join(ct_args', " vs ")
                                \o " for software engineering automation"
               IN  /\ ct_ret' = Delegated(query)
                   /\ RTEnter(query, DefaultMaxResults)]_vars

\* compare_tools was called with an empty list after a failed research call:
\* it returned the error object and the state is still error
C20_Witness ==
    /\ ct_count = 1
    /\ ct_args = <<>>
    /\ ct_ret = CompareError
    /\ state = "error"
    /\ rt_pc = "none"
    /\ act_pc = "none"

\* C21 as stated: a failure of the LLM comes out of _llm_generate as an
\* exception and is absorbed by _analyze_results: a research_topic call whose
\* searches found a result makes its LLM call and, whatever the LLM does,
\* returns a result (with the fixed failure summary and the error text when the
\* LLM raised), has recorded its research observation, and ends with the state
\* idle.
C21_LLMFailureAbsorbed ==
    [][(/\ rt_pc = "finally"
        /\ rt_pc' = "none"
        /\ \E i \in 1..Len(rt_calls) : ~ZeroResults(rt_calls[i]))
          => /\ \A g \in GenerateOutcomes : g.exc => _llm_generate(g) = Raise(g.msg)
             /\ rt_exit = "return"
             /\ rt_ret # None
             /\ rt_llm_calls = 1
             /\ rt_ret[1].analysis.error # None =>
                   rt_ret[1].analysis =
                      Analysis("Error analyzing search results.",
                               <<"Analysis failed due to an error.">>,
                               rt_ret[1].analysis.error)
             /\ inserted # <<>>
             /\ inserted[Len(inserted)].content = "Completed research on " \o rt_topic
             /\ state' = "idle"]_vars

\* C22: the state error is never tested and does not last: once
\* research_topic has ended with the state error, an act call still returns
\* with the state idle and a research_topic call entered in state error sets
\* the state to thinking; whatever the state is, act and research_topic can be
\* called whenever no other call is running.
C22_ErrorNotAbsorbing ==
    [][/\ (act_pc = "finally" /\ act_pc' = "none" /\ rt_pc = "none" /\ rt_exit = "raise")
            => state' = "idle"
       /\ (rt_pc = "none" /\ rt_pc' = "search" /\ state = "error")
            => state' = "thinking"
       /\ (Ready /\ Len(inserted) < MaxActs) =>
             /\ \A a \in ActionNames : ENABLED Act(a)
             /\ agent_class = "ResearchAgent" =>
                   \A t \in Topics, m \in MaxResultsArgs : ENABLED RTBegin(t, m)]_vars

\* research_topic ended with the state error, and an act call made by the
\* owner afterwards has returned: the state is idle
C22_Witness ==
    /\ rt_pc = "none"
    /\ rt_exit = "raise"
    /\ act_pc = "none"
    /\ act_exit = "return"
    /\ act_args.query = "q"
    /\ state = "idle"

====
